---- MODULE Spec2Model ----
(***************************************************************************)
(* Model of the simulation lifecycle controller of the page-rank vertex    *)
(* binary: src/python/page_rank/model/c_models/src/neuron/c_main.c.        *)
(*                                                                         *)
(* The state is the file's globals (time, simulation_ticks, infinite_run,  *)
(* recording_flags) plus the position of the core (booting, running,       *)
(* paused, halted).  Each handler (c_main, timer_callback,                 *)
(* resume_callback) is one action.  The collaborators the handlers call    *)
(* live in other libraries; a handler's effect on them is recorded as the  *)
(* sequence of calls it makes, and their boolean results are inputs.       *)
(*                                                                         *)
(* uint32_t arithmetic is modelled modulo 2^WordBits: TLC's integers are   *)
(* 32-bit signed, so the width is scaled down and the wrap kept.           *)
(***************************************************************************)
EXTENDS Integers, Sequences, FiniteSets, TLC

\* ---------------------------------------------------------------- bounds
\* width of the machine word standing for uint32_t
WordBits == 2
\* number of timer interrupts delivered in one execution
MaxTimer == 7
\* number of resumes delivered in one execution
MaxResumes == 1

\* ------------------------------------------------------------- constants
Modulus == 2 ^ WordBits
UINT32_MAX == Modulus - 1
Word == 0 .. UINT32_MAX
\* the TRUE that infinite_run is compared with
C_TRUE == 1

\* values of the recording flags word: no channel, one channel
FlagValues == {0, 1}
\* values of the infinite_run word: FALSE, TRUE and another non-zero word
InfiniteRunValues == {0, C_TRUE, C_TRUE + 1}

\* the calls of initialise() that return a bool
Fallible ==
    { "data_specification_read_header", "simulation_initialise",
      "recording_initialize", "vertex_initialise",
      "message_dispatching_initialise", "population_table_initialise",
      "message_processing_initialise" }

Outcomes == [Fallible -> BOOLEAN]

\* number of words of the provenance region that are modelled
ProvenanceWords == 5

\* extra_provenance_data_region_entries
NUMBER_OF_PRE_SYNAPTIC_EVENT_COUNT == 0
SYNAPTIC_WEIGHT_SATURATION_COUNT == 1
INPUT_BUFFER_OVERFLOW_COUNT == 2
CURRENT_TIMER_TICK == 3

\* callback_priorities
MC == -1
SDP_AND_DMA_AND_USER == 0
TIMER_AND_BUFFERING == 2

\* ------------------------------------------------------------ call traces
\* a call without a recorded argument, and a call with one
Call(op) == <<op>>
CallArg(op, arg) == <<op, arg>>

Op(c) == c[1]

RECURSIVE CountCalls(_, _)
CountCalls(calls, op) ==
    IF calls = <<>> THEN 0
    ELSE (IF Op(Head(calls)) = op THEN 1 ELSE 0) + CountCalls(Tail(calls), op)

HasCall(calls, op) == \E i \in 1 .. Len(calls) : Op(calls[i]) = op

\* the operation names of a call trace, in order
RECURSIVE Ops(_)
Ops(calls) ==
    IF calls = <<>> THEN <<>> ELSE <<Op(Head(calls))>> \o Ops(Tail(calls))

\* the arguments of the calls of op in a call trace, in order
RECURSIVE ArgsOf(_, _)
ArgsOf(calls, op) ==
    IF calls = <<>> THEN <<>>
    ELSE (IF Op(Head(calls)) = op THEN <<Head(calls)[2]>> ELSE <<>>)
         \o ArgsOf(Tail(calls), op)

\* position of the first call of op in a trace, 0 when absent
RECURSIVE IndexOf(_, _)
IndexOf(calls, op) ==
    IF calls = <<>> THEN 0
    ELSE IF Op(Head(calls)) = op THEN 1
    ELSE LET r == IndexOf(Tail(calls), op) IN IF r = 0 THEN 0 ELSE r + 1

\* --------------------------------------------------------------- handlers
\* variant: the result of population_table_initialise is not checked
initialise_unchecked(ok, sys, rec, g) ==
    LET c1 == <<Call("data_specification_read_header")>>
    IN
    IF ~ok["data_specification_read_header"]
    THEN [ret |-> FALSE, calls |-> c1, g |-> g]
    ELSE
    LET c2 == Append(c1, CallArg("simulation_initialise",
                              <<SDP_AND_DMA_AND_USER, SDP_AND_DMA_AND_USER>>))
    IN
    IF ~ok["simulation_initialise"]
    THEN [ret |-> FALSE, calls |-> c2, g |-> g]
    ELSE
    LET g2 == [g EXCEPT !.simulation_ticks = sys.ticks,
                        !.infinite_run = sys.inf]
        c3 == Append(c2, Call("simulation_set_provenance_function"))
        c4 == Append(c3, Call("recording_initialize"))
    IN
    IF ~ok["recording_initialize"]
    THEN [ret |-> FALSE, calls |-> c4, g |-> g2]
    ELSE
    LET g4 == [g2 EXCEPT !.recording_flags = rec]
        c5 == Append(c4, CallArg("vertex_initialise", g4.recording_flags))
    IN
    IF ~ok["vertex_initialise"]
    THEN [ret |-> FALSE, calls |-> c5, g |-> g4]
    ELSE
    LET c6 == Append(c5, Call("message_dispatching_initialise"))
    IN
    IF ~ok["message_dispatching_initialise"]
    THEN [ret |-> FALSE, calls |-> c6, g |-> g4]
    ELSE
    LET c7 == Append(c6, Call("population_table_initialise"))
    IN
    LET c8 == Append(c7, CallArg("message_processing_initialise",
                              <<MC, SDP_AND_DMA_AND_USER>>))
    IN
    IF ~ok["message_processing_initialise"]
    THEN [ret |-> FALSE, calls |-> c8, g |-> g4]
    ELSE
    [ret |-> TRUE, calls |-> Append(c8, Call("profiler_init")), g |-> g4]

\* variant: the population table is set up before the dispatching
initialise_reordered(ok, sys, rec, g) ==
    LET c1 == <<Call("data_specification_read_header")>>
    IN
    IF ~ok["data_specification_read_header"]
    THEN [ret |-> FALSE, calls |-> c1, g |-> g]
    ELSE
    LET c2 == Append(c1, CallArg("simulation_initialise",
                              <<SDP_AND_DMA_AND_USER, SDP_AND_DMA_AND_USER>>))
    IN
    IF ~ok["simulation_initialise"]
    THEN [ret |-> FALSE, calls |-> c2, g |-> g]
    ELSE
    LET g2 == [g EXCEPT !.simulation_ticks = sys.ticks,
                        !.infinite_run = sys.inf]
        c3 == Append(c2, Call("simulation_set_provenance_function"))
        c4 == Append(c3, Call("recording_initialize"))
    IN
    IF ~ok["recording_initialize"]
    THEN [ret |-> FALSE, calls |-> c4, g |-> g2]
    ELSE
    LET g4 == [g2 EXCEPT !.recording_flags = rec]
        c5 == Append(c4, CallArg("vertex_initialise", g4.recording_flags))
    IN
    IF ~ok["vertex_initialise"]
    THEN [ret |-> FALSE, calls |-> c5, g |-> g4]
    ELSE
    LET c6 == Append(c5, Call("population_table_initialise"))
    IN
    IF ~ok["population_table_initialise"]
    THEN [ret |-> FALSE, calls |-> c6, g |-> g4]
    ELSE
    LET c7 == Append(c6, Call("message_dispatching_initialise"))
    IN
    IF ~ok["message_dispatching_initialise"]
    THEN [ret |-> FALSE, calls |-> c7, g |-> g4]
    ELSE
    LET c8 == Append(c7, CallArg("message_processing_initialise",
                              <<MC, SDP_AND_DMA_AND_USER>>))
    IN
    IF ~ok["message_processing_initialise"]
    THEN [ret |-> FALSE, calls |-> c8, g |-> g4]
    ELSE
    [ret |-> TRUE, calls |-> Append(c8, Call("profiler_init")), g |-> g4]

\* initialise(): ok gives the result of each bool-returning call, sys the
\* tick count and infinite-run word of the System region, rec the flags of
\* the Recording region; g holds the globals on entry.  The result carries
\* the return value, the calls made in order and the globals on return.
\* An out-parameter is written by a collaborator that succeeds.
initialise(ok, sys, rec, g) ==
    LET c1 == <<Call("data_specification_read_header")>>
    IN
    IF ~ok["data_specification_read_header"]
    THEN [ret |-> FALSE, calls |-> c1, g |-> g]
    ELSE
    LET c2 == Append(c1, CallArg("simulation_initialise",
                              <<SDP_AND_DMA_AND_USER, SDP_AND_DMA_AND_USER>>))
    IN
    IF ~ok["simulation_initialise"]
    THEN [ret |-> FALSE, calls |-> c2, g |-> g]
    ELSE
    LET g2 == [g EXCEPT !.simulation_ticks = sys.ticks,
                        !.infinite_run = sys.inf]
        c3 == Append(c2, Call("simulation_set_provenance_function"))
        c4 == Append(c3, Call("recording_initialize"))
    IN
    IF ~ok["recording_initialize"]
    THEN [ret |-> FALSE, calls |-> c4, g |-> g2]
    ELSE
    LET g4 == [g2 EXCEPT !.recording_flags = rec]
        c5 == Append(c4, CallArg("vertex_initialise", g4.recording_flags))
    IN
    IF ~ok["vertex_initialise"]
    THEN [ret |-> FALSE, calls |-> c5, g |-> g4]
    ELSE
    LET c6 == Append(c5, Call("message_dispatching_initialise"))
    IN
    IF ~ok["message_dispatching_initialise"]
    THEN [ret |-> FALSE, calls |-> c6, g |-> g4]
    ELSE
    LET c7 == Append(c6, Call("population_table_initialise"))
    IN
    IF ~ok["population_table_initialise"]
    THEN [ret |-> FALSE, calls |-> c7, g |-> g4]
    ELSE
    LET c8 == Append(c7, CallArg("message_processing_initialise",
                              <<MC, SDP_AND_DMA_AND_USER>>))
    IN
    IF ~ok["message_processing_initialise"]
    THEN [ret |-> FALSE, calls |-> c8, g |-> g4]
    ELSE
    [ret |-> TRUE, calls |-> Append(c8, Call("profiler_init")), g |-> g4]

\* rt_error(code): the core stops and the code is left for the host to read
rt_error(code) == CallArg("rt_error", code)

\* variant: a failed initialise is not reported and the core starts anyway
c_main_body_continue(ok, sys, rec, g) ==
    LET i == initialise(ok, sys, rec, g)
    IN
    [ret |-> i.ret,
     calls |-> i.calls \o << Call("spin1_set_timer_tick"),
                             CallArg("spin1_callback_on",
                <<"timer_callback", TIMER_AND_BUFFERING>>),
                             Call("simulation_run") >>,
     g |-> [i.g EXCEPT !.time = UINT32_MAX]]

\* variant: the timer callback is registered in the most urgent class
c_main_body_urgent(ok, sys, rec, g) ==
    LET i == initialise(ok, sys, rec, g)
    IN
    IF ~i.ret
    THEN [ret |-> i.ret, calls |-> Append(i.calls, rt_error("RTE_API")),
          g |-> i.g]
    ELSE [ret |-> i.ret,
          calls |-> i.calls \o << Call("spin1_set_timer_tick"),
                                  CallArg("spin1_callback_on",
                <<"timer_callback", MC>>),
                                  Call("simulation_run") >>,
          g |-> [i.g EXCEPT !.time = UINT32_MAX]]

\* c_main(): initialise, halt on failure, otherwise start the clock at "-1",
\* set the timer period, register timer_callback and enter simulation_run;
\* ret is what initialise returned
c_main_body(ok, sys, rec, g) ==
    LET i == initialise(ok, sys, rec, g)
    IN
    IF ~i.ret
    THEN [ret |-> i.ret, calls |-> Append(i.calls, rt_error("RTE_API")),
          g |-> i.g]
    ELSE [ret |-> i.ret,
          calls |-> i.calls \o << Call("spin1_set_timer_tick"),
                                  CallArg("spin1_callback_on",
                <<"timer_callback", TIMER_AND_BUFFERING>>),
                                  Call("simulation_run") >>,
          g |-> [i.g EXCEPT !.time = UINT32_MAX]]

\* variant: the recording is reset after the parameters are reloaded
resume_callback_late(reload_ok) ==
    LET c == << Call("vertex_reload_neuron_parameters"),
                Call("recording_reset") >>
    IN
    IF ~reload_ok THEN Append(c, rt_error("RTE_SWERR")) ELSE c

\* resume_callback(): reload_ok is the result of
\* vertex_reload_neuron_parameters
resume_callback(reload_ok) ==
    LET c == << Call("recording_reset"),
                Call("vertex_reload_neuron_parameters") >>
    IN
    IF ~reload_ok THEN Append(c, rt_error("RTE_SWERR")) ELSE c

\* time++ on a uint32_t
Increment(t) == (t + 1) % Modulus

\* variant: the boundary is tested one tick late
BoundaryTick_late(inf, t, ticks) == inf # C_TRUE /\ t > ticks

\* variant: the boundary is tested without regard to infinite_run
BoundaryTick_finite(inf, t, ticks) == t >= ticks

\* the test of the boundary branch of timer_callback
BoundaryTick(inf, t, ticks) == inf # C_TRUE /\ t >= ticks

\* variant: the boundary tick leaves the clock where the increment put it
Decrement_none(t) == t

\* variant: the boundary tick rewinds the clock by two
Decrement_two(t) == (t - 2) % Modulus

\* variant: the decrement saturates at zero instead of wrapping
Decrement_saturating(t) == IF t = 0 THEN 0 ELSE t - 1

\* time -= 1 on a uint32_t
Decrement(t) == (t - 1) % Modulus

\* variant: recordings are finalised before the parameters are stored
BoundaryCalls_early(flags) ==
    (IF flags > 0 THEN <<Call("recording_finalise")>> ELSE <<>>)
    \o << Call("vertex_store_neuron_parameters"),
          CallArg("simulation_handle_pause_resume", "resume_callback"),
          CallArg("profiler_write_entry_disable_irq_fiq", "EXIT"),
          Call("profiler_finalise") >>

\* variant: the boundary branch pauses without storing the parameters
BoundaryCalls_unstored(flags) ==
    << CallArg("simulation_handle_pause_resume", "resume_callback"),
       CallArg("profiler_write_entry_disable_irq_fiq", "EXIT") >>
    \o (IF flags > 0 THEN <<Call("recording_finalise")>> ELSE <<>>)
    \o <<Call("profiler_finalise")>>

\* variant: the boundary branch pauses without finalising the recordings
BoundaryCalls_unfinalised(flags) ==
    << Call("vertex_store_neuron_parameters"),
       CallArg("simulation_handle_pause_resume", "resume_callback"),
       CallArg("profiler_write_entry_disable_irq_fiq", "EXIT"),
       Call("profiler_finalise") >>

\* the collaborator calls of the boundary branch, in order
BoundaryCalls(flags) ==
    << Call("vertex_store_neuron_parameters"),
       CallArg("simulation_handle_pause_resume", "resume_callback"),
       CallArg("profiler_write_entry_disable_irq_fiq", "EXIT") >>
    \o (IF flags > 0 THEN <<Call("recording_finalise")>> ELSE <<>>)
    \o <<Call("profiler_finalise")>>

\* variant: the per-tick recording hook runs whatever the flags are
StepCalls_always(flags, t) ==
    << CallArg("vertex_do_timestep_update", t),
       CallArg("recording_do_timestep_update", t),
       CallArg("profiler_write_entry_disable_irq_fiq", "EXIT") >>

\* the collaborator calls of an ordinary tick, in order
StepCalls(flags, t) ==
    <<CallArg("vertex_do_timestep_update", t)>>
    \o (IF flags > 0 THEN <<CallArg("recording_do_timestep_update", t)>>
        ELSE <<>>)
    \o <<CallArg("profiler_write_entry_disable_irq_fiq", "EXIT")>>

\* variant: the boundary branch does not return and the tick is done too
timer_callback_fallthrough(g) ==
    LET t1 == Increment(g.time)
        enter == <<CallArg("profiler_write_entry_disable_irq_fiq", "ENTER")>>
    IN
    IF BoundaryTick(g.infinite_run, t1, g.simulation_ticks)
    THEN [calls |-> enter \o BoundaryCalls(g.recording_flags)
                    \o StepCalls(g.recording_flags, Decrement(t1)),
          tested |-> t1,
          g |-> [g EXCEPT !.time = Decrement(t1)]]
    ELSE [calls |-> enter \o StepCalls(g.recording_flags, t1),
          tested |-> t1,
          g |-> [g EXCEPT !.time = t1]]

\* timer_callback(): g holds the globals on entry; the result carries the
\* calls made, the value of time tested and the globals on return
timer_callback(g) ==
    LET t1 == Increment(g.time)
        enter == <<CallArg("profiler_write_entry_disable_irq_fiq", "ENTER")>>
    IN
    IF BoundaryTick(g.infinite_run, t1, g.simulation_ticks)
    THEN [calls |-> enter \o BoundaryCalls(g.recording_flags),
          tested |-> t1,
          g |-> [g EXCEPT !.time = Decrement(t1)]]
    ELSE [calls |-> enter \o StepCalls(g.recording_flags, t1),
          tested |-> t1,
          g |-> [g EXCEPT !.time = t1]]

\* a word of the provenance region: not written, the value a getter of a
\* collaborator returned, or a value of the clock
Unwritten == <<"unwritten">>
Counter(getter) == <<"counter", getter>>
Clock(t) == <<"time", t>>

\* the getters c_main_store_provenance_data calls, in order
ProvenanceCalls ==
    << Call("message_dispatching_get_pre_synaptic_events"),
       Call("message_dispatching_get_saturation_count"),
       Call("message_processing_get_buffer_overflows") >>

\* variant: the tick reached is not written to the region
c_main_store_provenance_data_short(region, t) ==
    [region EXCEPT
        ![NUMBER_OF_PRE_SYNAPTIC_EVENT_COUNT] =
            Counter("message_dispatching_get_pre_synaptic_events"),
        ![SYNAPTIC_WEIGHT_SATURATION_COUNT] =
            Counter("message_dispatching_get_saturation_count"),
        ![INPUT_BUFFER_OVERFLOW_COUNT] =
            Counter("message_processing_get_buffer_overflows")]

\* c_main_store_provenance_data(): the region after the call, t being the
\* value of time
c_main_store_provenance_data(region, t) ==
    [region EXCEPT
        ![NUMBER_OF_PRE_SYNAPTIC_EVENT_COUNT] =
            Counter("message_dispatching_get_pre_synaptic_events"),
        ![SYNAPTIC_WEIGHT_SATURATION_COUNT] =
            Counter("message_dispatching_get_saturation_count"),
        ![INPUT_BUFFER_OVERFLOW_COUNT] =
            Counter("message_processing_get_buffer_overflows"),
        ![CURRENT_TIMER_TICK] = Clock(t)]

\* the model collaborator: v.model is the index of the update that produced
\* the live model state, v.region the index of the update whose state the
\* model-parameter region holds (0: the state the host loaded), v.n the
\* number of updates so far.  One call changes it as follows.
VertexCall(c, v) ==
    CASE Op(c) = "vertex_do_timestep_update" ->
             [v EXCEPT !.model = v.n + 1, !.n = v.n + 1]
      [] Op(c) = "vertex_store_neuron_parameters" ->
             [v EXCEPT !.region = v.model]
      [] Op(c) \in {"vertex_initialise", "vertex_reload_neuron_parameters"} ->
             [v EXCEPT !.model = v.region]
      [] OTHER -> v

\* the model collaborator after the calls of a trace, in order
RECURSIVE VertexEffect(_, _)
VertexEffect(cs, v) ==
    IF cs = <<>> THEN v ELSE VertexEffect(Tail(cs), VertexCall(Head(cs), v))

\* a handler registered with priority p can interrupt one registered with
\* priority q: the lower number is the higher priority, and handlers of one
\* class do not interrupt each other
CanInterrupt(p, q) == p < q

\* ------------------------------------------------------------------ state
VARIABLES
    pc,            \* "boot", "running", "paused" or "halted"
    glob,          \* the globals time, simulation_ticks, infinite_run,
                   \* recording_flags
    rt_code,       \* the code the core halted with, "none" while it runs
    timer_on,      \* timer_callback is registered and the timer is set
    handler,       \* the handler that ran last
    calls,         \* the calls made by the handler that ran last
    tested,        \* the value of time tested by the last timer_callback
    init_ok,       \* the results the collaborators gave to initialise
    init_ret,      \* what initialise returned
    reload_ok,     \* the result of the last reload of the parameters
    init_calls,    \* the calls made by c_main
    updates,       \* arguments of every vertex_do_timestep_update so far
    segs,          \* per run segment: ticks and infinite-run word it was
                   \* started with, and the numbers of updates (base) and
                   \* of timer interrupts (at) before it
    n_timer,       \* number of timer_callback invocations
    n_resume,      \* number of resume_callback invocations
    n_reset,       \* number of recording_reset calls
    first_pause,   \* n_timer of the first boundary tick, 0 before it
    vertex,        \* the model collaborator: live state and region
    provenance     \* the words of the provenance region

vars == << pc, glob, rt_code, timer_on, handler, calls, tested, init_ok,
           init_ret, reload_ok, init_calls, updates, segs, n_timer, n_resume, n_reset,
           first_pause, vertex, provenance >>

\* the globals as the C runtime zero-initialises them
Init ==
    /\ pc = "boot"
    /\ glob = [time |-> 0, simulation_ticks |-> 0, infinite_run |-> 0,
               recording_flags |-> 0]
    /\ rt_code = "none"
    /\ timer_on = FALSE
    /\ handler = "none"
    /\ calls = <<>>
    /\ tested = 0
    /\ init_ok = [s \in Fallible |-> TRUE]
    /\ init_ret = FALSE
    /\ reload_ok = TRUE
    /\ init_calls = <<>>
    /\ updates = <<>>
    /\ segs = <<>>
    /\ n_timer = 0
    /\ n_resume = 0
    /\ n_reset = 0
    /\ first_pause = 0
    /\ vertex = [model |-> 0, region |-> 0, n |-> 0]
    /\ provenance = [i \in 0 .. ProvenanceWords - 1 |-> Unwritten]

\* the code a call trace halts with
HaltCode(cs) ==
    IF HasCall(cs, "rt_error") THEN ArgsOf(cs, "rt_error")[1] ELSE "none"

\* boot: the entry point runs once
CMain ==
    /\ pc = "boot"
    /\ \E ok \in Outcomes, ticks \in Word, inf \in InfiniteRunValues,
          rec \in FlagValues :
         LET r == c_main_body(ok, [ticks |-> ticks, inf |-> inf], rec, glob)
             halted == HasCall(r.calls, "rt_error")
         IN
         /\ glob' = r.g
         /\ calls' = r.calls
         /\ init_calls' = r.calls
         /\ init_ok' = ok
         /\ init_ret' = r.ret
         /\ rt_code' = HaltCode(r.calls)
         /\ pc' = IF halted THEN "halted" ELSE "running"
         /\ timer_on' = (~halted /\ HasCall(r.calls, "spin1_callback_on"))
         /\ segs' = IF halted THEN segs
                    ELSE <<[ticks |-> r.g.simulation_ticks,
                            inf |-> r.g.infinite_run, base |-> 0,
                            at |-> 0]>>
         /\ n_reset' = n_reset + CountCalls(r.calls, "recording_reset")
         /\ vertex' = VertexEffect(r.calls, vertex)
    /\ handler' = "c_main"
    /\ UNCHANGED << tested, reload_ok, updates, n_timer, n_resume,
                    first_pause, provenance >>

\* the timer interrupt: the registered timer_callback runs to completion
TimerTick ==
    /\ pc \in {"running", "paused"}
    /\ timer_on
    /\ n_timer < MaxTimer
    /\ LET r == timer_callback(glob)
           pausing == HasCall(r.calls, "simulation_handle_pause_resume")
       IN
       /\ glob' = r.g
       /\ calls' = r.calls
       /\ tested' = r.tested
       /\ pc' = IF pausing THEN "paused" ELSE pc
       /\ updates' = updates \o ArgsOf(r.calls, "vertex_do_timestep_update")
       /\ n_reset' = n_reset + CountCalls(r.calls, "recording_reset")
       /\ vertex' = VertexEffect(r.calls, vertex)
       /\ first_pause' = IF pausing /\ first_pause = 0 THEN n_timer + 1
                         ELSE first_pause
    /\ n_timer' = n_timer + 1
    /\ handler' = "timer_callback"
    /\ UNCHANGED << rt_code, timer_on, init_ok, init_ret, reload_ok,
                    init_calls, segs, n_resume, provenance >>

\* variant: a resume restarts the clock
Resume_restart ==
    /\ pc = "paused"
    /\ n_resume < MaxResumes
    /\ \E ticks \in Word, inf \in InfiniteRunValues, ok \in BOOLEAN :
         LET cs == resume_callback(ok)
             halted == HasCall(cs, "rt_error")
         IN
         /\ glob' = [glob EXCEPT !.simulation_ticks = ticks,
                                 !.infinite_run = inf,
                                 !.time = UINT32_MAX]
         /\ calls' = cs
         /\ reload_ok' = ok
         /\ rt_code' = HaltCode(cs)
         /\ pc' = IF halted THEN "halted" ELSE "running"
         /\ segs' = Append(segs, [ticks |-> ticks, inf |-> inf,
                                  base |-> Len(updates), at |-> n_timer])
         /\ n_reset' = n_reset + CountCalls(cs, "recording_reset")
         /\ vertex' = VertexEffect(cs, vertex)
    /\ n_resume' = n_resume + 1
    /\ handler' = "resume_callback"
    /\ UNCHANGED << timer_on, tested, init_ok, init_ret, init_calls,
                    updates, n_timer, first_pause, provenance >>

\* the host resumes a paused core: the simulation library stores the new
\* tick count and infinite-run word through the pointers initialise gave
\* it, then runs the resume_callback registered by the boundary tick
Resume ==
    /\ pc = "paused"
    /\ n_resume < MaxResumes
    /\ \E ticks \in Word, inf \in InfiniteRunValues, ok \in BOOLEAN :
         LET cs == resume_callback(ok)
             halted == HasCall(cs, "rt_error")
         IN
         /\ glob' = [glob EXCEPT !.simulation_ticks = ticks,
                                 !.infinite_run = inf]
         /\ calls' = cs
         /\ reload_ok' = ok
         /\ rt_code' = HaltCode(cs)
         /\ pc' = IF halted THEN "halted" ELSE "running"
         /\ segs' = Append(segs, [ticks |-> ticks, inf |-> inf,
                                  base |-> Len(updates), at |-> n_timer])
         /\ n_reset' = n_reset + CountCalls(cs, "recording_reset")
         /\ vertex' = VertexEffect(cs, vertex)
    /\ n_resume' = n_resume + 1
    /\ handler' = "resume_callback"
    /\ UNCHANGED << timer_on, tested, init_ok, init_ret, init_calls,
                    updates, n_timer, first_pause, provenance >>

Next == CMain \/ TimerTick \/ Resume

Spec == Init /\ [][Next]_vars

\* the timer keeps interrupting the core for as long as it is set
FairSpec == Spec /\ WF_vars(TimerTick)

\* a resume request that reaches a core which is running: the boundary
\* tick of an earlier segment has handed resume_callback to the simulation
\* library, and the callback itself does not look at the state of the run
StrayResume ==
    /\ pc = "running"
    /\ first_pause # 0
    /\ n_resume <= MaxResumes
    /\ \E ok \in BOOLEAN :
         LET cs == resume_callback(ok)
             halted == HasCall(cs, "rt_error")
         IN
         /\ calls' = cs
         /\ reload_ok' = ok
         /\ rt_code' = HaltCode(cs)
         /\ pc' = IF halted THEN "halted" ELSE pc
         /\ n_reset' = n_reset + CountCalls(cs, "recording_reset")
         /\ vertex' = VertexEffect(cs, vertex)
    /\ n_resume' = n_resume + 1
    /\ handler' = "resume_callback"
    /\ UNCHANGED << glob, timer_on, tested, init_ok, init_ret, init_calls,
                    updates, segs, n_timer, first_pause, provenance >>

\* the run has ended at a boundary tick and the simulation library runs the
\* provenance hook that initialise registered
StoreProvenance ==
    /\ pc = "paused"
    /\ HasCall(init_calls, "simulation_set_provenance_function")
    /\ provenance' = c_main_store_provenance_data(provenance, glob.time)
    /\ calls' = ProvenanceCalls
    /\ handler' = "c_main_store_provenance_data"
    /\ UNCHANGED << pc, glob, rt_code, timer_on, tested, init_ok, init_ret,
                    reload_ok, init_calls, updates, segs, n_timer, n_resume,
                    n_reset, first_pause, vertex >>

NextProv == Next \/ StoreProvenance

SpecProv == Init /\ [][NextProv]_vars

NextStray == Next \/ StrayResume

SpecStray == Init /\ [][NextStray]_vars

TypeOK ==
    /\ pc \in {"boot", "running", "paused", "halted"}
    /\ glob.time \in Word
    /\ glob.simulation_ticks \in Word
    /\ rt_code \in {"none", "RTE_API", "RTE_SWERR"}

\* ----------------------------------------------------------- properties
Min(a, b) == IF a < b THEN a ELSE b

\* the tick indices 0, 1, ..., n-1
Iota(n) == [i \in 1 .. n |-> i - 1]

\* a call trace without the profiler's entry/exit marks
NotMark(c) == Op(c) # "profiler_write_entry_disable_irq_fiq"
Unmarked(cs) == Ops(SelectSeq(cs, NotMark))

\* the last timer_callback took the boundary branch
AtBoundary ==
    /\ handler = "timer_callback"
    /\ glob.infinite_run # C_TRUE
    /\ tested >= glob.simulation_ticks

\* the core is in the segment c_main started, which is finite with N ticks
FirstFinite == Len(segs) = 1 /\ segs[1].inf = 0

\* C1: in the run c_main starts with ticks_requested = N and infinite_run
\* false, the first N timer callbacks call vertex_do_timestep_update with
\* 0, 1, ..., N-1 in order, and callback N+1 (time = N after the increment)
\* takes the checkpoint/pause branch and calls no update.
C1_TickMonotonicity ==
    FirstFinite =>
        LET N == segs[1].ticks
        IN
        /\ updates = Iota(Min(n_timer, N))
        /\ (n_timer <= N => first_pause = 0 /\ pc = "running")
        /\ (n_timer > N => first_pause = N + 1 /\ pc = "paused")
        /\ (n_timer = N + 1 =>
               /\ tested = N
               /\ HasCall(calls, "vertex_store_neuron_parameters")
               /\ HasCall(calls, "simulation_handle_pause_resume")
               /\ ~HasCall(calls, "vertex_do_timestep_update"))

C1_Witness ==
    /\ FirstFinite
    /\ segs[1].ticks = 3
    /\ n_timer = 4
    /\ updates = <<0, 1, 2>>
    /\ pc = "paused"

\* C2: the timer callback that takes the boundary branch calls, in this
\* order, vertex_store_neuron_parameters, simulation_handle_pause_resume,
\* recording_finalise (only when recording_flags is non-zero) and
\* profiler_finalise, and calls neither vertex_do_timestep_update nor
\* recording_do_timestep_update.
C2_BoundaryOrder ==
    AtBoundary =>
        /\ Unmarked(calls) =
              << "vertex_store_neuron_parameters",
                 "simulation_handle_pause_resume" >>
              \o (IF glob.recording_flags # 0
                  THEN <<"recording_finalise">> ELSE <<>>)
              \o <<"profiler_finalise">>
        /\ ~HasCall(calls, "vertex_do_timestep_update")
        /\ ~HasCall(calls, "recording_do_timestep_update")
        /\ calls[3] = CallArg("simulation_handle_pause_resume",
                              "resume_callback")

C2_Witness ==
    /\ AtBoundary
    /\ glob.infinite_run = 0
    /\ glob.recording_flags # 0
    /\ HasCall(calls, "recording_finalise")

\* C3 as stated: when the boundary tick of a finite run of N ticks returns,
\* time equals N.
C3_TimeLeftAtN ==
    (FirstFinite /\ AtBoundary) => glob.time = segs[1].ticks

\* C3 as amended: when the boundary tick of a finite run of N ticks
\* returns, time equals N - 1 modulo the word size (the value tested
\* against ticks_requested was N, and the branch subtracts one again).
C3_TimeLeftBelowN ==
    (FirstFinite /\ AtBoundary) =>
        /\ tested = segs[1].ticks
        /\ glob.time = (segs[1].ticks - 1) % Modulus
        /\ (segs[1].ticks > 0 => glob.time = segs[1].ticks - 1)
        /\ (segs[1].ticks = 0 => glob.time = UINT32_MAX)

C3_Witness ==
    /\ FirstFinite
    /\ AtBoundary
    /\ segs[1].ticks = 3
    /\ n_timer = 4
    /\ glob.time = 2

\* C4 as stated: once a finite run of N ticks has taken the boundary
\* branch, and until a resume, time never exceeds N and no further update
\* is called.
C4_NeverAboveN ==
    (FirstFinite /\ first_pause # 0) =>
        /\ glob.time <= segs[1].ticks
        /\ tested <= segs[1].ticks
        /\ Len(updates) = segs[1].ticks

\* C4 as amended: a timer callback run while the core is paused at the
\* boundary of a finite run of N ticks tests time = N, calls no update and
\* leaves time at the value it had before it, N - 1 modulo the word size
\* (for N = 0 that value is the largest word, which is above N).
C4_IdempotentBoundary ==
    [][ (pc = "paused" /\ FirstFinite /\ n_timer' = n_timer + 1) =>
            /\ glob'.time = glob.time
            /\ glob.time = (segs[1].ticks - 1) % Modulus
            /\ tested' = segs[1].ticks
            /\ updates' = updates
            /\ ~HasCall(calls', "vertex_do_timestep_update")
            /\ pc' = "paused" ]_vars

C4_Witness ==
    /\ FirstFinite
    /\ first_pause # 0
    /\ n_timer >= first_pause + 2
    /\ segs[1].ticks = 2
    /\ glob.time = 1

\* C5: when a finite run pauses at boundary N and is resumed with
\* ticks_requested = M > N (still finite), the first timer callback after
\* the resume calls vertex_do_timestep_update(N), and over both segments
\* the update is called with 0 .. M-1 once each, in order.
C5_TickContinuity ==
    ( /\ Len(segs) = 2
      /\ segs[1].inf = 0
      /\ segs[2].inf = 0
      /\ segs[2].ticks > segs[1].ticks
      /\ pc # "halted" ) =>
        LET N == segs[1].ticks
            M == segs[2].ticks
            k == n_timer - segs[2].at
        IN
        /\ segs[2].base = N
        /\ updates = Iota(N + Min(k, M - N))
        /\ (k >= 1 => updates[N + 1] = N)
        /\ (k = 1 => calls[2] = CallArg("vertex_do_timestep_update", N))
        /\ (pc = "paused" <=> k > M - N)
        /\ (pc = "paused" => updates = Iota(M))

C5_Witness ==
    /\ Len(segs) = 2
    /\ segs[1].inf = 0
    /\ segs[2].inf = 0
    /\ segs[1].ticks = 1
    /\ segs[2].ticks = 3
    /\ pc = "paused"
    /\ updates = <<0, 1, 2>>

\* the order of the steps of initialise
InitOrder ==
    << "data_specification_read_header", "simulation_initialise",
       "simulation_set_provenance_function", "recording_initialize",
       "vertex_initialise", "message_dispatching_initialise",
       "population_table_initialise", "message_processing_initialise",
       "profiler_init" >>

IsInitStep(c) == \E i \in 1 .. Len(InitOrder) : Op(c) = InitOrder[i]

\* the steps initialise executed, in order
InitSteps == Ops(SelectSeq(init_calls, IsInitStep))

\* C6: initialise returns success iff the header validates,
\* simulation_initialise succeeds and recording, vertex, dispatching,
\* population-table and message-processing initialisation each succeed;
\* for every combination of outcomes the return value is the conjunction
\* of the outcomes of the steps reached.
C6_InitialiseResult ==
    pc # "boot" =>
        /\ init_ret = (\A s \in Fallible : init_ok[s])
        /\ init_ret =
             (\A s \in Fallible : HasCall(init_calls, s) => init_ok[s])

C6_Witness ==
    /\ pc = "halted"
    /\ ~init_ret
    /\ ~init_ok["population_table_initialise"]
    /\ \A s \in Fallible \ {"population_table_initialise"} : init_ok[s]

\* C7: the steps initialise executes are a prefix of the fixed order
\* header, simulation_initialise, provenance hook, recording, vertex,
\* dispatching, population table, message processing, profiler, ending at
\* the first step that fails; when the header or the System region is
\* invalid no collaborator is initialised and no hook is registered.
C7_InitialiseOrder ==
    pc # "boot" =>
        LET k == Len(InitSteps)
        IN
        /\ k >= 1
        /\ InitSteps = SubSeq(InitOrder, 1, k)
        /\ \A i \in 1 .. k - 1 :
              InitOrder[i] \in Fallible => init_ok[InitOrder[i]]
        /\ (k < Len(InitOrder) =>
              InitOrder[k] \in Fallible /\ ~init_ok[InitOrder[k]])
        /\ (k = Len(InitOrder) => \A s \in Fallible : init_ok[s])
        /\ ( ( \/ ~init_ok["data_specification_read_header"]
               \/ ~init_ok["simulation_initialise"] ) =>
              \A i \in 3 .. Len(InitOrder) :
                  ~HasCall(init_calls, InitOrder[i]) )

C7_Witness ==
    /\ pc = "halted"
    /\ InitSteps = SubSeq(InitOrder, 1, 6)
    /\ ~init_ok["message_dispatching_initialise"]
    /\ init_ok["population_table_initialise"]

\* C8: when infinite_run is TRUE no timer callback takes the boundary
\* branch, whatever ticks_requested is and also when the counter wraps:
\* each callback calls vertex_do_timestep_update and none of
\* store_parameters, the pause registration, recording_finalise or
\* profiler_finalise.
C8_InfiniteRun ==
    /\ (handler = "timer_callback" /\ glob.infinite_run = C_TRUE) =>
          /\ calls[2] = CallArg("vertex_do_timestep_update", tested)
          /\ glob.time = tested
          /\ ~HasCall(calls, "vertex_store_neuron_parameters")
          /\ ~HasCall(calls, "simulation_handle_pause_resume")
          /\ ~HasCall(calls, "recording_finalise")
          /\ ~HasCall(calls, "profiler_finalise")
          /\ pc = "running"
    /\ (Len(segs) = 1 /\ segs[1].inf = C_TRUE) =>
          /\ first_pause = 0
          /\ Len(updates) = n_timer
          /\ \A i \in 1 .. Len(updates) : updates[i] = (i - 1) % Modulus

C8_Witness ==
    /\ Len(segs) = 1
    /\ segs[1].inf = C_TRUE
    /\ segs[1].ticks = 0
    /\ n_timer = Modulus + 1
    /\ updates[n_timer] = 0
    /\ glob.time = 0

\* C9: when initialise fails c_main halts the core with RTE_API: the timer
\* period is not set, timer_callback is not registered, simulation_run is
\* not entered and no tick runs; a failed reload in resume_callback halts
\* with RTE_SWERR; a halted core takes no further step, so nothing is
\* retried.
C9_FatalHalt ==
    /\ [] ( (pc # "boot" /\ ~init_ret) =>
              /\ pc = "halted"
              /\ rt_code = "RTE_API"
              /\ init_calls[Len(init_calls)] = CallArg("rt_error", "RTE_API")
              /\ ~timer_on
              /\ ~HasCall(init_calls, "spin1_set_timer_tick")
              /\ ~HasCall(init_calls, "spin1_callback_on")
              /\ ~HasCall(init_calls, "simulation_run")
              /\ n_timer = 0
              /\ updates = <<>>
              /\ handler = "c_main" )
    /\ [] ( (handler = "resume_callback" /\ ~reload_ok) =>
              pc = "halted" /\ rt_code = "RTE_SWERR" )
    /\ [] ( pc = "halted" <=> rt_code # "none" )
    /\ [][ pc # "halted" /\ (pc # "boot" => init_calls' = init_calls) ]_vars

C9_Witness ==
    /\ pc = "halted"
    /\ rt_code = "RTE_API"
    /\ ~init_ret
    /\ ~init_ok["recording_initialize"]
    /\ init_ok["simulation_initialise"]
    /\ init_ok["data_specification_read_header"]

\* C10: resume_callback calls recording_reset once, before
\* vertex_reload_neuron_parameters, initialises no other collaborator and
\* halts iff the reload fails; recording_reset is called by no other
\* handler, so the resets counted equal the resumes.
C10_ResumeResets ==
    /\ n_reset = n_resume
    /\ ~HasCall(init_calls, "recording_reset")
    /\ (handler = "timer_callback" => ~HasCall(calls, "recording_reset"))
    /\ (handler = "resume_callback" =>
          /\ CountCalls(calls, "recording_reset") = 1
          /\ CountCalls(calls, "vertex_reload_neuron_parameters") = 1
          /\ IndexOf(calls, "recording_reset")
               < IndexOf(calls, "vertex_reload_neuron_parameters")
          /\ \A i \in 1 .. Len(calls) :
                Op(calls[i]) \in { "recording_reset",
                                   "vertex_reload_neuron_parameters",
                                   "rt_error" }
          /\ (HasCall(calls, "rt_error") <=> ~reload_ok)
          /\ (pc = "halted" <=> ~reload_ok)
          /\ (~reload_ok => rt_code = "RTE_SWERR"))

C10_Witness ==
    /\ handler = "resume_callback"
    /\ ~reload_ok
    /\ pc = "halted"
    /\ n_reset = 1
    /\ n_resume = 1

\* C11: a resume that is invoked while the core is not paused halts the
\* core at once, and neither resets the recording nor reloads the model
\* parameters.
C11_StrayResumeHalts ==
    [][ (pc = "running" /\ n_resume' = n_resume + 1) =>
            /\ pc' = "halted"
            /\ ~HasCall(calls', "recording_reset")
            /\ ~HasCall(calls', "vertex_reload_neuron_parameters") ]_vars

\* C12 as stated: with recording flags non-zero, the recording_finalise call
\* of a segment precedes its pause transition
\* (simulation_handle_pause_resume).
C12_FinaliseBeforePause ==
    (AtBoundary /\ glob.recording_flags # 0) =>
        /\ HasCall(calls, "recording_finalise")
        /\ IndexOf(calls, "recording_finalise")
             < IndexOf(calls, "simulation_handle_pause_resume")

\* C12 as amended: with recording flags non-zero, the boundary tick calls
\* simulation_handle_pause_resume first and recording_finalise after it, in
\* the same invocation; when that invocation has returned and the core is
\* paused, the recordings have been finalised exactly once by it.
C12_FinaliseAfterPause ==
    /\ (AtBoundary /\ glob.recording_flags # 0) =>
          /\ HasCall(calls, "recording_finalise")
          /\ IndexOf(calls, "simulation_handle_pause_resume")
               < IndexOf(calls, "recording_finalise")
    /\ (pc = "paused" /\ glob.recording_flags # 0) =>
          /\ handler = "timer_callback"
          /\ CountCalls(calls, "recording_finalise") = 1
          /\ CountCalls(calls, "simulation_handle_pause_resume") = 1

C12_Witness ==
    /\ pc = "paused"
    /\ glob.recording_flags # 0
    /\ calls[3] = CallArg("simulation_handle_pause_resume", "resume_callback")
    /\ calls[5] = Call("recording_finalise")

\* C13: whenever the core is paused, the model-parameter region holds the
\* model state produced by the last executed vertex_do_timestep_update: the
\* boundary tick stores the parameters after the last update of the
\* segment and before the pause transition, and no update happens between
\* that store and the next resume.
C13_CheckpointConsistency ==
    /\ [] ( pc = "paused" =>
              /\ vertex.region = vertex.model
              /\ vertex.model = Len(updates)
              /\ vertex.n = Len(updates)
              /\ HasCall(calls, "vertex_store_neuron_parameters")
              /\ IndexOf(calls, "vertex_store_neuron_parameters")
                   < IndexOf(calls, "simulation_handle_pause_resume")
              /\ ~HasCall(calls, "vertex_do_timestep_update") )
    /\ [][ (pc = "paused" /\ pc' = "paused") =>
              vertex' = vertex /\ updates' = updates ]_vars

C13_Witness ==
    /\ pc = "paused"
    /\ Len(segs) = 2
    /\ vertex.region = 3
    /\ vertex.model = 3
    /\ updates = <<0, 1, 2>>

\* the calls of the checkpoint/pause sequence
PauseOps ==
    { "vertex_store_neuron_parameters", "simulation_handle_pause_resume",
      "recording_finalise", "profiler_finalise" }

\* the calls of the model step
StepOps == { "vertex_do_timestep_update", "recording_do_timestep_update" }

\* C14: every timer_callback invocation does exactly one of the model
\* update (with the optional per-tick recording hook) and the
\* checkpoint/pause sequence, never both and never neither; the pause
\* transition is never made by an invocation that called
\* vertex_do_timestep_update.
C14_PauseAtTickBoundary ==
    handler = "timer_callback" =>
        LET stepped == \E op \in StepOps : HasCall(calls, op)
            pausing == \E op \in PauseOps : HasCall(calls, op)
        IN
        /\ stepped # pausing
        /\ (stepped => CountCalls(calls, "vertex_do_timestep_update") = 1)
        /\ (pausing =>
              /\ CountCalls(calls, "vertex_store_neuron_parameters") = 1
              /\ CountCalls(calls, "simulation_handle_pause_resume") = 1
              /\ CountCalls(calls, "profiler_finalise") = 1)
        /\ (pausing <=> AtBoundary)
        /\ ~ ( /\ HasCall(calls, "simulation_handle_pause_resume")
               /\ HasCall(calls, "vertex_do_timestep_update") )

C14_Witness ==
    /\ handler = "timer_callback"
    /\ HasCall(calls, "simulation_handle_pause_resume")
    /\ ~HasCall(calls, "vertex_do_timestep_update")
    /\ updates = <<0, 1>>
    /\ n_timer = 3

\* C15: a non-boundary timer_callback calls recording_do_timestep_update
\* iff recording_flags is non-zero, after vertex_do_timestep_update and
\* with the same time; the boundary tick calls recording_finalise iff
\* recording_flags is non-zero and profiler_finalise always;
\* recording_flags is written by initialise only.
C15_RecordingHooks ==
    /\ [] ( (handler = "timer_callback" /\ ~AtBoundary) =>
              /\ calls[2] = CallArg("vertex_do_timestep_update", tested)
              /\ (HasCall(calls, "recording_do_timestep_update")
                    <=> glob.recording_flags # 0)
              /\ (glob.recording_flags # 0 =>
                    /\ calls[3] =
                         CallArg("recording_do_timestep_update", tested)
                    /\ CountCalls(calls, "recording_do_timestep_update") = 1)
              /\ ~HasCall(calls, "recording_finalise")
              /\ ~HasCall(calls, "profiler_finalise") )
    /\ [] ( AtBoundary =>
              /\ (HasCall(calls, "recording_finalise")
                    <=> glob.recording_flags # 0)
              /\ CountCalls(calls, "profiler_finalise") = 1 )
    /\ [][ pc # "boot" =>
              glob'.recording_flags = glob.recording_flags ]_vars

C15_Witness ==
    /\ handler = "timer_callback"
    /\ glob.recording_flags # 0
    /\ calls[2] = CallArg("vertex_do_timestep_update", 1)
    /\ calls[3] = CallArg("recording_do_timestep_update", 1)

\* C16: c_main_store_provenance_data writes exactly four words of the
\* provenance region (pre-synaptic events, saturations, input-buffer
\* overflows and time as it is at the call) and changes no controller
\* state; it is reached only through the hook initialise registered, no
\* handler of c_main.c calls it, and ticks do not write the region.
C16_ProvenanceFrame ==
    /\ [][ handler' = "c_main_store_provenance_data" =>
              /\ glob' = glob
              /\ pc' = pc
              /\ updates' = updates
              /\ provenance'[NUMBER_OF_PRE_SYNAPTIC_EVENT_COUNT] =
                   Counter("message_dispatching_get_pre_synaptic_events")
              /\ provenance'[SYNAPTIC_WEIGHT_SATURATION_COUNT] =
                   Counter("message_dispatching_get_saturation_count")
              /\ provenance'[INPUT_BUFFER_OVERFLOW_COUNT] =
                   Counter("message_processing_get_buffer_overflows")
              /\ provenance'[CURRENT_TIMER_TICK] = Clock(glob.time)
              /\ \A i \in DOMAIN provenance :
                    i > CURRENT_TIMER_TICK => provenance'[i] = provenance[i]
              /\ HasCall(init_calls, "simulation_set_provenance_function")
         ]_vars
    /\ [][ provenance' # provenance =>
              handler' = "c_main_store_provenance_data" ]_vars
    /\ [] ( handler \in {"c_main", "timer_callback", "resume_callback"} =>
              ~HasCall(calls, "c_main_store_provenance_data") )
    /\ [] ( Cardinality({ i \in DOMAIN provenance :
                            provenance[i] # Unwritten }) \in {0, 4} )

C16_Witness ==
    /\ handler = "c_main_store_provenance_data"
    /\ provenance[CURRENT_TIMER_TICK] = Clock(1)
    /\ glob.time = 1
    /\ provenance[ProvenanceWords - 1] = Unwritten

\* C18: time is changed by the tick callback only: initialise, resume and
\* the provenance hook leave it as it is, and between two timer_callback
\* invocations, also across a pause and a resume, its value stays the same.
\* (c_main gives the clock its start value before the first tick.)
C18_TimeFrame ==
    /\ [][ (pc # "boot" /\ glob'.time # glob.time) =>
              n_timer' = n_timer + 1 ]_vars
    /\ [][ (pc # "boot" /\ handler' \in { "resume_callback",
                                          "c_main_store_provenance_data" })
              => glob'.time = glob.time ]_vars
    /\ [] ( (handler = "c_main" /\ ~init_ret) => glob.time = 0 )
    /\ [] ( (handler = "c_main" /\ init_ret) => glob.time = UINT32_MAX )

C18_Witness ==
    /\ handler = "c_main_store_provenance_data"
    /\ n_resume = 1
    /\ pc = "paused"
    /\ glob.time = 2
    /\ updates = <<0, 1, 2>>

\* the priority timer_callback is registered with
TimerPriority == ArgsOf(init_calls, "spin1_callback_on")[1][2]

\* the priorities handed to the message, DMA and host-I/O handlers
IoPriorities ==
    LET sim == ArgsOf(init_calls, "simulation_initialise")[1]
        msg == ArgsOf(init_calls, "message_processing_initialise")[1]
    IN { sim[1], sim[2], msg[1], msg[2] }

\* C17 as stated: the timer callback is registered with a priority number
\* strictly lower than that of the message/DMA/host-I/O handlers, so that
\* it can interrupt them and they cannot interrupt it.
C17_TimerAboveIo ==
    timer_on =>
        \A q \in IoPriorities :
            /\ TimerPriority < q
            /\ CanInterrupt(TimerPriority, q)
            /\ ~CanInterrupt(q, TimerPriority)

\* C17 as amended: the timer callback is registered with a priority number
\* strictly higher (a lower priority) than those of the message/DMA/host-I/O
\* handlers, so that each of them can interrupt it and it can interrupt
\* none of them.
C17_TimerBelowIo ==
    timer_on =>
        /\ TimerPriority = TIMER_AND_BUFFERING
        /\ IoPriorities = {MC, SDP_AND_DMA_AND_USER}
        /\ \A q \in IoPriorities :
              /\ TimerPriority > q
              /\ CanInterrupt(q, TimerPriority)
              /\ ~CanInterrupt(TimerPriority, q)

C17_Witness ==
    /\ timer_on
    /\ pc = "running"
    /\ n_timer = 1
    /\ TimerPriority = 2
    /\ 0 \in IoPriorities

\* C19: after a successful initialise with infinite_run false and
\* ticks_requested = N, a timer that keeps firing brings the core to the
\* boundary branch and the paused state, on callback N+1 exactly; with
\* infinite_run TRUE the paused state is not reached.
C19_PlannedCompletion ==
    /\ (FirstFinite /\ pc = "running" /\ segs[1].ticks < MaxTimer)
           ~> (FirstFinite /\ pc = "paused")
    /\ [] ( (FirstFinite /\ pc = "paused") =>
              /\ first_pause = segs[1].ticks + 1
              /\ n_timer >= first_pause
              /\ rt_code = "none" )
    /\ [] ( (FirstFinite /\ n_timer <= segs[1].ticks) => pc = "running" )
    /\ [] ( (Len(segs) = 1 /\ segs[1].inf = C_TRUE) =>
              pc = "running" /\ first_pause = 0 )

C19_Witness ==
    /\ FirstFinite
    /\ pc = "paused"
    /\ segs[1].ticks = 2
    /\ n_timer = 3
    /\ first_pause = 3

\* C20: time starts at the largest word, so the first increment wraps to 0;
\* with ticks_requested = 0 and infinite_run false the first timer_callback
\* takes the boundary branch, no update is called, and the decrement wraps
\* time back to the largest word, so that after a resume with
\* ticks_requested = M > 0 the first update is vertex_do_timestep_update(0).
C20_ZeroTicks ==
    /\ (handler = "c_main" /\ init_ret) => glob.time = UINT32_MAX
    /\ (n_timer = 1 => tested = 0)
    /\ (FirstFinite /\ segs[1].ticks = 0 /\ n_timer >= 1) =>
          /\ first_pause = 1
          /\ tested = 0
          /\ updates = <<>>
          /\ glob.time = UINT32_MAX
          /\ pc = "paused"
    /\ ( /\ Len(segs) = 2
         /\ segs[1].inf = 0
         /\ segs[1].ticks = 0
         /\ segs[2].inf = 0
         /\ segs[2].ticks > 0
         /\ pc # "halted" ) =>
          /\ segs[2].base = 0
          /\ (n_timer = segs[2].at => glob.time = UINT32_MAX)
          /\ (n_timer > segs[2].at =>
                /\ updates # <<>>
                /\ updates[1] = 0)
          /\ (n_timer = segs[2].at + 1 =>
                /\ calls[2] = CallArg("vertex_do_timestep_update", 0)
                /\ glob.time = 0)

C20_Witness ==
    /\ Len(segs) = 2
    /\ segs[1].inf = 0
    /\ segs[1].ticks = 0
    /\ segs[2].inf = 0
    /\ segs[2].ticks = 2
    /\ n_timer = segs[2].at + 1
    /\ updates = <<0>>
    /\ glob.time = 0

====
